---- MODULE Spec2Model ----
(***************************************************************************)
(* gql-generator (src/index.js): generation of one operation document per  *)
(* root field of a GraphQL schema.                                         *)
(*                                                                         *)
(* Strings are modelled as sequences of tokens, so that template strings   *)
(* are concatenations: the name id1 is <<"id", "1">>, whether it was       *)
(* written in the schema or built as `${arg.name}${index}`.  A generated   *)
(* text is the sequence of its lines; '' is the empty sequence.            *)
(***************************************************************************)
EXTENDS Integers, Sequences, FiniteSets, TLC

VARIABLES
    typeDef,                  \* gqlGenerate's argument typeDef (the schema)
    depthLimitArg,            \* gqlGenerate's argument depthLimitArg
    excludeNestedArgsArg,     \* gqlGenerate's argument excludeNestedArgsArg
    includeDeprecatedFieldsArg, \* gqlGenerate's argument includeDeprecatedFieldsArg
    gqlSchema,                \* module variable, index.js:13
    depthLimit,               \* module variable, index.js:9
    excludeNestedArgs,        \* module variable, index.js:10
    includeDeprecatedFields,  \* module variable, index.js:11
    indexJsExportAll,         \* module variable, index.js:14
    files,                    \* the files under destDirPath
    pc,                       \* position of the run inside gqlGenerate
    description,              \* generateFile's parameter: the operation kind
    cursor,                   \* position of generateFile's forEach
    indexJs,                  \* generateFile's local indexJs
    lastCall,                 \* the latest root call of generateQuery
    runs,                     \* completed calls of gqlGenerate
    firstRunFiles             \* the files as the first run left them

vars == << typeDef, depthLimitArg, excludeNestedArgsArg, includeDeprecatedFieldsArg,
           gqlSchema, depthLimit, excludeNestedArgs, includeDeprecatedFields,
           indexJsExportAll, files, pc, description, cursor, indexJs, lastCall,
           runs, firstRunFiles >>

(***************************************************************************)
(* Bounds                                                                  *)
(***************************************************************************)
\* depthLimitArg ranges over 1..MaxDepthLimit
MaxDepthLimit == 4
\* calls of gqlGenerate in one process
MaxRuns == 2
\* sibling fields that declare the argument id
MaxSiblings == 3
\* nested calls of generateQuery the call stack holds; a traversal that
\* terminates under MaxDepthLimit nests fewer
MaxCallStack == 9
\* depthLimitArg || 100
DefaultDepthLimit == 100

(***************************************************************************)
(* Strings                                                                 *)
(***************************************************************************)
DigitChars == <<"0", "1", "2", "3", "4", "5", "6", "7", "8", "9">>

RECURSIVE NumberToString(_)
NumberToString(n) ==
    IF n < 10 THEN <<DigitChars[n + 1]>>
    ELSE NumberToString(n \div 10) \o <<DigitChars[(n % 10) + 1]>>

InList(list, x) == \E i \in 1..Len(list) : list[i] = x

(***************************************************************************)
(* The schema, as graphql's buildSchema presents it                        *)
(***************************************************************************)
Scalar == [kind |-> "scalar", fields |-> <<>>, types |-> <<>>]
ObjectType(fs) == [kind |-> "object", fields |-> fs, types |-> <<>>]
UnionType(ts) == [kind |-> "union", fields |-> <<>>, types |-> ts]
Field(n, sig, as, dep) == [name |-> n, type |-> sig, args |-> as, isDeprecated |-> dep]
Argument(owner, n, sig) == [name |-> n, type |-> sig, owner |-> owner]
Leaf(n) == Field(<<n>>, <<"Int">>, <<>>, FALSE)
Ref(n, t) == Field(<<n>>, <<t>>, <<>>, FALSE)
IdArg(owner) == Argument(owner, <<"id">>, <<"Int", "!">>)

Scalars == "Int" :> Scalar @@ "String" :> Scalar

\* type Query { user(id: Int!): User! }  type User { id: Int!  username: String! }
UserSchema ==
    "Query" :> ObjectType(<<Field(<<"user">>, <<"User", "!">>, <<IdArg("user")>>, FALSE)>>)
 @@ "User" :> ObjectType(<<Field(<<"id">>, <<"Int", "!">>, <<>>, FALSE),
                           Field(<<"username">>, <<"String", "!">>, <<>>, FALSE)>>)
 @@ Scalars

\* type Query { r: A }  type A { self: A  name: String! }
SelfSchema ==
    "Query" :> ObjectType(<<Ref("r", "A")>>)
 @@ "A" :> ObjectType(<<Ref("self", "A"),
                        Field(<<"name">>, <<"String", "!">>, <<>>, FALSE)>>)
 @@ Scalars

\* type Query { r: R }  type R { f1(id: Int!): Int ... fk(id: Int!): Int }
SiblingFields(k) ==
    [i \in 1..k |-> Field(<<"f">> \o NumberToString(i), <<"Int">>,
                          <<IdArg(NumberToString(i))>>, FALSE)]
SiblingSchema(k) ==
    "Query" :> ObjectType(<<Ref("r", "R")>>)
 @@ "R" :> ObjectType(SiblingFields(k))
 @@ Scalars

\* type Query { r: R }  type R { f1(id1: Int): Int  f2(id: Int!): Int  f3(id: Int!): Int }
ClashSchema ==
    "Query" :> ObjectType(<<Ref("r", "R")>>)
 @@ "R" :> ObjectType(<<
        Field(<<"f", "1">>, <<"Int">>, <<Argument("1", <<"id", "1">>, <<"Int">>)>>, FALSE),
        Field(<<"f", "2">>, <<"Int">>, <<IdArg("2")>>, FALSE),
        Field(<<"f", "3">>, <<"Int">>, <<IdArg("3")>>, FALSE)>>)
 @@ Scalars

\* type Query { r(id: Int!, id1: Int): A }  type A { f(id: Int!): Int }
ParentClashSchema ==
    "Query" :> ObjectType(<<Field(<<"r">>, <<"A">>,
                    <<IdArg("r"), Argument("r", <<"id", "1">>, <<"Int">>)>>, FALSE)>>)
 @@ "A" :> ObjectType(<<Field(<<"f">>, <<"Int">>, <<IdArg("f")>>, FALSE)>>)
 @@ Scalars

\* type Query { a: A }  type A { a: A  b: A  n: Int }
TwoSelfSchema ==
    "Query" :> ObjectType(<<Ref("a", "A")>>)
 @@ "A" :> ObjectType(<<Ref("a", "A"), Ref("b", "A"), Leaf("n")>>)
 @@ Scalars

\* type Query { r: R }  type R { a: A  b: B }  type A { p: P }  type B { p: P }
\* type P { q: Q  m: Int }  type Q { n: Int }
DiamondSchema ==
    "Query" :> ObjectType(<<Ref("r", "R")>>)
 @@ "R" :> ObjectType(<<Ref("a", "A"), Ref("b", "B")>>)
 @@ "A" :> ObjectType(<<Ref("p", "P")>>)
 @@ "B" :> ObjectType(<<Ref("p", "P")>>)
 @@ "P" :> ObjectType(<<Ref("q", "Q"), Leaf("m")>>)
 @@ "Q" :> ObjectType(<<Leaf("n")>>)
 @@ Scalars

\* type Query { r: A }  type A { b: [B!]!  n: Int }  type B { a: A  m: Int }
ObjectCycleSchema ==
    "Query" :> ObjectType(<<Ref("r", "A")>>)
 @@ "A" :> ObjectType(<<Field(<<"b">>, <<"[", "B", "!", "]", "!">>, <<>>, FALSE), Leaf("n")>>)
 @@ "B" :> ObjectType(<<Ref("a", "A"), Leaf("m")>>)
 @@ Scalars

\* type Query { r: U }  union U = A  type A { u: U  n: Int }
UnionCycleSchema ==
    "Query" :> ObjectType(<<Ref("r", "U")>>)
 @@ "U" :> UnionType(<<"A">>)
 @@ "A" :> ObjectType(<<Ref("u", "U"), Leaf("n")>>)
 @@ Scalars

\* type Query { r: U }  union U = A  type A { b: B }  type B { u: U  n: Int }
MixedCycleSchema ==
    "Query" :> ObjectType(<<Ref("r", "U")>>)
 @@ "U" :> UnionType(<<"A">>)
 @@ "A" :> ObjectType(<<Ref("b", "B")>>)
 @@ "B" :> ObjectType(<<Ref("u", "U"), Leaf("n")>>)
 @@ Scalars

\* type Query { r: R  s(id: Int!): U }  type R { u(id: Int!): U  n: Int }
\* union U = A | B  type A { c: C }  type B { d: C }  type C { x: Int }
UnionSchema ==
    "Query" :> ObjectType(<<Ref("r", "R"),
                            Field(<<"s">>, <<"U">>, <<IdArg("s")>>, FALSE)>>)
 @@ "R" :> ObjectType(<<Field(<<"u">>, <<"U">>, <<IdArg("u")>>, FALSE), Leaf("n")>>)
 @@ "U" :> UnionType(<<"A", "B">>)
 @@ "A" :> ObjectType(<<Ref("c", "C")>>)
 @@ "B" :> ObjectType(<<Ref("d", "C")>>)
 @@ "C" :> ObjectType(<<Leaf("x")>>)
 @@ Scalars

\* type Query { r: R  gone: Int @deprecated }
\* type R { kept: Int  old: Int @deprecated  all: D  u: U }
\* type D { older: Int @deprecated }  union U = A | E
\* type A { x: Int  oldest: Int @deprecated }  type E { e: D }
DeprecatedSchema ==
    "Query" :> ObjectType(<<Ref("r", "R"),
                            Field(<<"gone">>, <<"Int">>, <<>>, TRUE)>>)
 @@ "R" :> ObjectType(<<Leaf("kept"), Field(<<"old">>, <<"Int">>, <<>>, TRUE),
                        Field(<<"all">>, <<"D">>, <<IdArg("all")>>, FALSE), Ref("u", "U")>>)
 @@ "D" :> ObjectType(<<Field(<<"older">>, <<"Int">>, <<>>, TRUE)>>)
 @@ "U" :> UnionType(<<"A", "E">>)
 @@ "A" :> ObjectType(<<Leaf("x"), Field(<<"oldest">>, <<"Int">>, <<>>, TRUE)>>)
 @@ "E" :> ObjectType(<<Ref("e", "D")>>)
 @@ Scalars

\* type Mutation { signup(email: String!, id: Int!): User  remove(id: Int!): Int }
\* type Query { user(id: Int!): User  users: [User] }
\* type Subscription { changed(id: Int!): User }
\* type User { id: Int!  friend(id: Int!): User  posts(id: Int!): [Post] }
\* type Post { author: User  title: String }
AppSchema ==
    "Mutation" :> ObjectType(<<
        Field(<<"signup">>, <<"User">>,
              <<Argument("signup", <<"email">>, <<"String", "!">>), IdArg("signup")>>, FALSE),
        Field(<<"remove">>, <<"Int">>, <<IdArg("remove")>>, FALSE)>>)
 @@ "Query" :> ObjectType(<<
        Field(<<"user">>, <<"User">>, <<IdArg("user")>>, FALSE),
        Field(<<"users">>, <<"[", "User", "]">>, <<>>, FALSE)>>)
 @@ "Subscription" :> ObjectType(<<
        Field(<<"changed">>, <<"User">>, <<IdArg("changed")>>, FALSE)>>)
 @@ "User" :> ObjectType(<<
        Field(<<"id">>, <<"Int", "!">>, <<>>, FALSE),
        Field(<<"friend">>, <<"User">>, <<IdArg("friend")>>, FALSE),
        Field(<<"posts">>, <<"[", "Post", "]">>, <<IdArg("posts")>>, FALSE)>>)
 @@ "Post" :> ObjectType(<<Ref("author", "User"),
                           Field(<<"title">>, <<"String">>, <<>>, FALSE)>>)
 @@ Scalars

\* type Query { p(id: Int!): A  q(id: Int!): B }  union U = A | B
\* type A { x(id: Int!): tx  n: Int }  type B { y: ty  m: Int }
\* for every choice of the types tx and ty
GraphSchema(tx, ty) ==
    "Query" :> ObjectType(<<Field(<<"p">>, <<"A">>, <<IdArg("p")>>, FALSE),
                            Field(<<"q">>, <<"B">>, <<IdArg("q")>>, FALSE)>>)
 @@ "A" :> ObjectType(<<Field(<<"x">>, <<tx>>, <<IdArg("x")>>, FALSE), Leaf("n")>>)
 @@ "B" :> ObjectType(<<Ref("y", ty), Leaf("m")>>)
 @@ "U" :> UnionType(<<"A", "B">>)
 @@ Scalars

Schemas ==
    { UserSchema, SelfSchema, ClashSchema, ParentClashSchema, TwoSelfSchema,
      DiamondSchema, ObjectCycleSchema, UnionCycleSchema, MixedCycleSchema,
      UnionSchema, DeprecatedSchema, AppSchema }
    \cup { SiblingSchema(k) : k \in 2..MaxSiblings }
    \cup { GraphSchema(tx, ty) : tx, ty \in {"Int", "A", "B", "U"} }

(***************************************************************************)
(* Ordered dictionaries (JavaScript objects with string keys): a sequence  *)
(* of entries [var, arg] in insertion order                                *)
(***************************************************************************)
HasKey(dict, k) == \E i \in 1..Len(dict) : dict[i].var = k

\* dict[k] = v: an existing key keeps its position, a new key is appended
SetKey(dict, k, v) ==
    IF HasKey(dict, k)
    THEN [i \in 1..Len(dict) |-> IF dict[i].var = k THEN [var |-> k, arg |-> v] ELSE dict[i]]
    ELSE Append(dict, [var |-> k, arg |-> v])

RECURSIVE ObjectAssign(_, _)
ObjectAssign(target, source) ==
    IF source = <<>> THEN target
    ELSE ObjectAssign(SetKey(target, Head(source).var, Head(source).arg), Tail(source))

(***************************************************************************)
(* getFieldArgsDict, index.js:22-42                                        *)
(***************************************************************************)
\* The reduce callback with a counter that is never advanced past its
\* current value (index = duplicateArgCounts[arg.name], without the + 1).
bindArgumentStaleIndex(arg, o, duplicateArgCounts, allArgsDict) ==
    IF arg.name \in DOMAIN duplicateArgCounts
    THEN LET index == duplicateArgCounts[arg.name]
         IN [o |-> SetKey(o, arg.name \o NumberToString(index), arg),
             duplicateArgCounts |-> (arg.name :> index) @@ duplicateArgCounts]
    ELSE IF HasKey(allArgsDict, arg.name)
    THEN [o |-> SetKey(o, arg.name \o <<"1">>, arg),
          duplicateArgCounts |-> (arg.name :> 1) @@ duplicateArgCounts]
    ELSE [o |-> SetKey(o, arg.name, arg), duplicateArgCounts |-> duplicateArgCounts]

\* The reduce callback: binds one argument to a variable name
bindArgument(arg, o, duplicateArgCounts, allArgsDict) ==
    IF arg.name \in DOMAIN duplicateArgCounts
    THEN LET index == duplicateArgCounts[arg.name] + 1
         IN [o |-> SetKey(o, arg.name \o NumberToString(index), arg),
             duplicateArgCounts |-> (arg.name :> index) @@ duplicateArgCounts]
    ELSE IF HasKey(allArgsDict, arg.name)
    THEN [o |-> SetKey(o, arg.name \o <<"1">>, arg),
          duplicateArgCounts |-> (arg.name :> 1) @@ duplicateArgCounts]
    ELSE [o |-> SetKey(o, arg.name, arg), duplicateArgCounts |-> duplicateArgCounts]

RECURSIVE reduceArgs(_, _, _, _)
reduceArgs(args, o, duplicateArgCounts, allArgsDict) ==
    IF args = <<>> THEN [o |-> o, duplicateArgCounts |-> duplicateArgCounts]
    ELSE LET step == bindArgument(Head(args), o, duplicateArgCounts, allArgsDict)
         IN reduceArgs(Tail(args), step.o, step.duplicateArgCounts, allArgsDict)

\* Returns the field's dictionary and duplicateArgCounts as the call leaves it
getFieldArgsDict(field, duplicateArgCounts, allArgsDict) ==
    reduceArgs(field.args, <<>>, duplicateArgCounts, allArgsDict)

\* `${arg.name}: $${varName}` for each entry, index.js:48-50
getArgsToVarsStr(dict) ==
    [i \in 1..Len(dict) |-> [arg |-> dict[i].arg.name, var |-> dict[i].var]]

\* `$${varName}: ${arg.type}` for each entry, index.js:56-58
getVarsToTypesStr(dict) ==
    [i \in 1..Len(dict) |-> [var |-> dict[i].var, type |-> dict[i].arg.type]]

(***************************************************************************)
(* generateQuery, index.js:71-145                                          *)
(***************************************************************************)
\* The accumulators a root call starts with (the default parameter values)
EmptyAccumulators ==
    [argumentsDict |-> <<>>, duplicateArgCounts |-> <<>>,
     crossReferenceKeyList |-> <<>>, suppressed |-> <<>>]

\* Default parameters that are created once and shared by every call
SharedAccumulators(previous) == previous

\* Default parameters are evaluated anew at every call that omits them,
\* whatever the objects of the previous call hold
DefaultAccumulators(previous) == EmptyAccumulators

\* field.type.inspect().replace(/[[\]!]/g, '')
StripWrappers(sig) == SelectSeq(sig, LAMBDA c : c \notin {"[", "]", "!"})
TypeNameOf(sig) == Head(StripWrappers(sig))

getType(name) == gqlSchema[name]
getFields(typeName) == getType(typeName).fields
FieldNamed(typeName, fieldName) ==
    LET fs == getFields(typeName)
    IN fs[CHOOSE i \in 1..Len(fs) : fs[i].name = fieldName]
FieldNames(typeName) ==
    LET fs == getFields(typeName) IN [i \in 1..Len(fs) |-> fs[i].name]

\* A key that leaves the parent's name out
crossReferenceKeyNoParent(curParentName, curName) ==
    <<"To">> \o curName \o <<"Key">>

\* `${curParentName}To${curName}Key`
crossReferenceKey(curParentName, curName) ==
    curParentName \o <<"To">> \o curName \o <<"Key">>

\* fromUnion ? curDepth - 2 : curDepth
effectiveDepth(curDepth, fromUnion) ==
    IF fromUnion THEN curDepth - 2 ELSE curDepth

\* The early return of index.js:89
isCutOff(key, crossReferenceKeyList, curDepth, fromUnion) ==
    \/ InList(crossReferenceKeyList, key)
    \/ effectiveDepth(curDepth, fromUnion) > depthLimit

\* The filter of index.js:95-99
notExcluded(fieldSchema) == includeDeprecatedFields \/ ~fieldSchema.isDeprecated

\* The lines of the generated text
FieldLine(curDepth, name, args, open) ==
    [kind |-> "field", indent |-> curDepth, name |-> name, args |-> args, open |-> open]
CloseLine(curDepth) ==
    [kind |-> "close", indent |-> curDepth, name |-> <<>>, args |-> <<>>, open |-> FALSE]
FragmentLine(curDepth, typeName) ==
    [kind |-> "fragment", indent |-> curDepth, name |-> <<typeName>>, args |-> <<>>,
     open |-> TRUE]

RangeError(acc) == [queryStr |-> <<>>, acc |-> acc, thrown |-> TRUE, cut |-> FALSE]

\* callStack: one entry per active call of generateQuery, holding the key
\* that call pushed on crossReferenceKeyList (<<>> when it pushed none)
RECURSIVE generateQuery(_, _, _, _, _, _, _)
RECURSIVE childQueries(_, _, _, _, _, _, _)
RECURSIVE unionQueries(_, _, _, _, _, _)

generateQuery(curName, curParentType, curParentName, acc, curDepth, fromUnion, callStack) ==
    IF Len(callStack) >= MaxCallStack THEN RangeError(acc)
    ELSE
    LET field == FieldNamed(curParentType, curName)
        curTypeName == TypeNameOf(field.type)
        curType == getType(curTypeName)
        hasFields == curType.kind = "object"
        key == crossReferenceKey(curParentName, curName)
        cut == hasFields /\ isCutOff(key, acc.crossReferenceKeyList, curDepth, fromUnion)
        \* cut by a key that no active call pushed, at a depth within the limit
        bySibling ==
            /\ InList(acc.crossReferenceKeyList, key)
            /\ ~InList(callStack, key)
            /\ effectiveDepth(curDepth, fromUnion) <= depthLimit
    IN
    IF cut
    THEN [queryStr |-> <<>>,
          acc |-> IF bySibling
                  THEN [acc EXCEPT !.suppressed = Append(@, key)]
                  ELSE acc,
          thrown |-> FALSE, cut |-> TRUE]
    ELSE
    LET pushed == hasFields /\ ~fromUnion
        acc1 == IF pushed
                THEN [acc EXCEPT !.crossReferenceKeyList = Append(@, key)]
                ELSE acc
        frame == IF pushed THEN key ELSE <<>>
        childKeys == SelectSeq(FieldNames(curTypeName),
                         LAMBDA fieldName : notExcluded(FieldNamed(curTypeName, fieldName)))
        children ==
            IF hasFields
            THEN childQueries(childKeys, curTypeName, curName, acc1, curDepth + 1,
                              fromUnion, Append(callStack, frame))
            ELSE [queryStr |-> <<>>, acc |-> acc1, thrown |-> FALSE]
        childQuery == children.queryStr
        emitted == ~(hasFields /\ childQuery = <<>>)
        withArgs == /\ emitted
                    /\ Len(field.args) > 0
                    /\ (curDepth <= 1 \/ ~excludeNestedArgs)
        bound == getFieldArgsDict(field, children.acc.duplicateArgCounts,
                                  children.acc.argumentsDict)
        acc2 == IF withArgs
                THEN [children.acc EXCEPT
                         !.argumentsDict = ObjectAssign(@, bound.o),
                         !.duplicateArgCounts = bound.duplicateArgCounts]
                ELSE children.acc
        isUnion == curType.kind = "union" /\ Len(curType.types) > 0
        fragments ==
            IF isUnion
            THEN unionQueries(curType.types, curName, acc2, curDepth, 
                              Append(callStack, frame), 1)
            ELSE [queryStr |-> <<>>, acc |-> acc2, thrown |-> FALSE]
        open == childQuery # <<>> \/ isUnion
        queryStr ==
            (IF emitted
             THEN <<FieldLine(curDepth, field.name,
                              IF withArgs THEN getArgsToVarsStr(bound.o) ELSE <<>>, open)>>
                  \o (IF childQuery # <<>>
                      THEN childQuery \o <<CloseLine(curDepth)>>
                      ELSE <<>>)
             ELSE <<>>)
            \o (IF isUnion THEN fragments.queryStr \o <<CloseLine(curDepth)>> ELSE <<>>)
    IN
    IF children.thrown THEN RangeError(children.acc)
    ELSE IF fragments.thrown THEN RangeError(fragments.acc)
    ELSE [queryStr |-> queryStr, acc |-> fragments.acc, thrown |-> FALSE, cut |-> FALSE]

\* .map(cur => generateQuery(cur, ...).queryStr).filter(Boolean).join('\n')
childQueries(keys, parentType, parentName, acc, curDepth, fromUnion, callStack) ==
    IF keys = <<>> THEN [queryStr |-> <<>>, acc |-> acc, thrown |-> FALSE]
    ELSE
    LET first == generateQuery(Head(keys), parentType, parentName, acc, curDepth,
                               fromUnion, callStack)
    IN  IF first.thrown THEN [queryStr |-> <<>>, acc |-> first.acc, thrown |-> TRUE]
        ELSE
        LET rest == childQueries(Tail(keys), parentType, parentName, first.acc,
                                 curDepth, fromUnion, callStack)
        IN  [queryStr |-> first.queryStr \o rest.queryStr, acc |-> rest.acc,
             thrown |-> rest.thrown]

\* The loop over the union's types, index.js:127-140
unionQueries(types, curName, acc, curDepth, callStack, i) ==
    IF i > Len(types) THEN [queryStr |-> <<>>, acc |-> acc, thrown |-> FALSE]
    ELSE
    LET valueTypeName == types[i]
        unionChildQuery == childQueries(FieldNames(valueTypeName), valueTypeName, curName,
                                        acc, curDepth + 2, TRUE, callStack)
    IN  IF unionChildQuery.thrown
        THEN [queryStr |-> <<>>, acc |-> unionChildQuery.acc, thrown |-> TRUE]
        ELSE
        LET rest == unionQueries(types, curName, unionChildQuery.acc, curDepth,
                                 callStack, i + 1)
            fragment ==
                IF unionChildQuery.queryStr # <<>>
                THEN <<FragmentLine(curDepth + 1, valueTypeName)>>
                     \o unionChildQuery.queryStr \o <<CloseLine(curDepth + 1)>>
                ELSE <<>>
        IN  [queryStr |-> fragment \o rest.queryStr, acc |-> rest.acc,
             thrown |-> rest.thrown]

(***************************************************************************)
(* generateFile and gqlGenerate, index.js:152-233                          *)
(***************************************************************************)
Kinds == <<"Mutation", "Query", "Subscription">>

\* The switch of index.js:155-167
outputFolderName(kind) ==
    CASE kind = "Mutation" -> "mutations"
      [] kind = "Query" -> "queries"
      [] kind = "Subscription" -> "subscriptions"

\* description.toLowerCase()
toLowerCase(kind) ==
    CASE kind = "Mutation" -> "mutation"
      [] kind = "Query" -> "query"
      [] kind = "Subscription" -> "subscription"

GqlPath(kind, type) == [folder |-> outputFolderName(kind), file |-> type \o <<".gql">>]
IndexPath(kind) == [folder |-> outputFolderName(kind), file |-> <<"index.ts">>]
TopIndexPath == [folder |-> ".", file |-> <<"index.ts">>]

\* `${description.toLowerCase()} ${type}(${varsToTypesStr}){\n${query}\n}`
Document(kind, type, queryResult) ==
    [kind |-> toLowerCase(kind), name |-> type,
     signature |-> getVarsToTypesStr(queryResult.acc.argumentsDict),
     body |-> queryResult.queryStr]

\* generateQuery(type, description), index.js:178
rootQuery(kind, type, previous) ==
    generateQuery(type, kind, <<"undefined">>, DefaultAccumulators(previous), 1, FALSE, <<>>)

IndexJsHeader == <<"import fs from 'fs'; import path from 'path';">>

WriteFile(path, content) == (path :> content) @@ files

NoCall == [n |-> 0, entry |-> EmptyAccumulators, exit |-> EmptyAccumulators]

Init ==
    /\ typeDef \in Schemas
    /\ depthLimitArg \in 1..MaxDepthLimit
    /\ excludeNestedArgsArg \in BOOLEAN
    /\ includeDeprecatedFieldsArg \in BOOLEAN
    /\ gqlSchema = <<>>
    /\ depthLimit = 0
    /\ excludeNestedArgs = FALSE
    /\ includeDeprecatedFields = FALSE
    /\ indexJsExportAll = <<>>
    /\ files = <<>>
    /\ pc = "idle"
    /\ description = "Mutation"
    /\ cursor = 1
    /\ indexJs = <<>>
    /\ lastCall = NoCall
    /\ runs = 0
    /\ firstRunFiles = <<>>

Inputs == << typeDef, depthLimitArg, excludeNestedArgsArg, includeDeprecatedFieldsArg >>
Config == << gqlSchema, depthLimit, excludeNestedArgs, includeDeprecatedFields >>

\* gqlGenerate up to its first call of generateFile, index.js:197-212
GqlGenerate ==
    /\ pc = "idle"
    /\ runs < MaxRuns
    /\ depthLimit' = IF depthLimitArg = 0 THEN DefaultDepthLimit ELSE depthLimitArg
    /\ excludeNestedArgs' = excludeNestedArgsArg
    /\ includeDeprecatedFields' = includeDeprecatedFieldsArg
    /\ gqlSchema' = typeDef
    /\ files' = <<>>
    /\ pc' = "generateFile"
    /\ description' = Kinds[1]
    /\ UNCHANGED << Inputs, indexJsExportAll, cursor, indexJs, lastCall, runs,
                    firstRunFiles >>

\* What follows the handling of one operation kind in gqlGenerate
NextKind ==
    IF description = Kinds[Len(Kinds)]
    THEN pc' = "writeIndex" /\ UNCHANGED description
    ELSE /\ pc' = "generateFile"
         /\ description' = Kinds[(CHOOSE i \in 1..Len(Kinds) : Kinds[i] = description) + 1]

\* The else branches of index.js:214-230: the schema has no such root type
NoRootType ==
    /\ pc = "generateFile"
    /\ description \notin DOMAIN gqlSchema
    /\ NextKind
    /\ UNCHANGED << Inputs, Config, indexJsExportAll, files, cursor, indexJs,
                    lastCall, runs, firstRunFiles >>

\* generateFile up to its forEach, index.js:153-173
GenerateFileBegin ==
    /\ pc = "generateFile"
    /\ description \in DOMAIN gqlSchema
    /\ indexJs' = IndexJsHeader
    /\ cursor' = 1
    /\ pc' = "forEach"
    /\ UNCHANGED << Inputs, Config, indexJsExportAll, files, description, lastCall,
                    runs, firstRunFiles >>

\* One iteration of the forEach of index.js:174-185
GenerateRootField ==
    /\ pc = "forEach"
    /\ cursor <= Len(getFields(description))
    /\ LET field == getFields(description)[cursor]
           type == field.name
       IN  IF notExcluded(field)
           THEN LET queryResult == rootQuery(description, type, lastCall.exit)
                IN  /\ lastCall' = [n |-> lastCall.n + 1,
                                    entry |-> DefaultAccumulators(lastCall.exit),
                                    exit |-> queryResult.acc]
                    /\ IF queryResult.thrown
                       THEN /\ pc' = "thrown"
                            /\ UNCHANGED << files, indexJs, cursor >>
                       ELSE /\ files' = WriteFile(GqlPath(description, type),
                                                  Document(description, type, queryResult))
                            /\ indexJs' = Append(indexJs, type)
                            /\ cursor' = cursor + 1
                            /\ pc' = pc
           ELSE /\ cursor' = cursor + 1
                /\ UNCHANGED << files, indexJs, lastCall, pc >>
    /\ UNCHANGED << Inputs, Config, indexJsExportAll, description, runs, firstRunFiles >>

\* generateFile after its forEach, index.js:186-187
GenerateFileEnd ==
    /\ pc = "forEach"
    /\ cursor > Len(getFields(description))
    /\ files' = WriteFile(IndexPath(description), indexJs)
    /\ indexJsExportAll' = Append(indexJsExportAll, outputFolderName(description))
    /\ NextKind
    /\ UNCHANGED << Inputs, Config, cursor, indexJs, lastCall, runs, firstRunFiles >>

\* The end of gqlGenerate, index.js:232
WriteIndex ==
    /\ pc = "writeIndex"
    /\ files' = WriteFile(TopIndexPath, indexJsExportAll)
    /\ runs' = runs + 1
    /\ firstRunFiles' = IF runs = 0 THEN files' ELSE firstRunFiles
    /\ pc' = "idle"
    /\ UNCHANGED << Inputs, Config, indexJsExportAll, description, cursor, indexJs,
                    lastCall >>

Next ==
    \/ GqlGenerate
    \/ NoRootType
    \/ GenerateFileBegin
    \/ GenerateRootField
    \/ GenerateFileEnd
    \/ WriteIndex

Spec == Init /\ [][Next]_vars

(***************************************************************************)
(* Reading the generated files                                             *)
(***************************************************************************)
GqlFiles == { p \in DOMAIN files : p.file # <<"index.ts">> }
Documents == { files[p] : p \in GqlFiles }

HasDocument(kind, name) == GqlPath(kind, <<name>>) \in DOMAIN files
DocumentOf(kind, name) == files[GqlPath(kind, <<name>>)]

\* Line i of the body lies inside a `... on T { }` block
InFragment(body, i) ==
    \E j \in 1..(i - 1) :
        /\ body[j].kind = "fragment"
        /\ \A k \in (j + 1)..i : body[k].indent > body[j].indent

\* The places of the body where a variable is referenced
CallSites(doc) ==
    UNION { { <<i, j>> : j \in 1..Len(doc.body[i].args) } : i \in 1..Len(doc.body) }
VariableAt(doc, s) == doc.body[s[1]].args[s[2]].var
SignatureVariables(doc) == { doc.signature[i].var : i \in 1..Len(doc.signature) }

\* The names that only deprecated fields of the schema bear
DeprecatedOnlyNames ==
    LET fields == UNION { { gqlSchema[t].fields[i] : i \in 1..Len(gqlSchema[t].fields) }
                          : t \in DOMAIN gqlSchema }
    IN  { f.name : f \in { g \in fields : g.isDeprecated } }
          \ { f.name : f \in { g \in fields : ~g.isDeprecated } }

(***************************************************************************)
(* Properties                                                              *)
(***************************************************************************)

\* C1: generateQuery terminates on every root field of every finite type
\* graph, cyclic or not, for every positive depthLimit: no traversal nests
\* calls without bound (here: until the call stack is exhausted).
C1_Terminates == pc # "thrown"

SelfTwiceBody ==
    << FieldLine(1, <<"r">>, <<>>, TRUE),
       FieldLine(2, <<"self">>, <<>>, TRUE),
       FieldLine(3, <<"self">>, <<>>, TRUE),
       FieldLine(4, <<"name">>, <<>>, FALSE),
       CloseLine(3),
       FieldLine(3, <<"name">>, <<>>, FALSE),
       CloseLine(2),
       FieldLine(2, <<"name">>, <<>>, FALSE),
       CloseLine(1) >>
C3_VariablesOneToOne ==
    \A doc \in Documents :
        /\ \A i, j \in 1..Len(doc.signature) :
               doc.signature[i].var = doc.signature[j].var => i = j
        /\ \A v \in SignatureVariables(doc) :
               Cardinality({ s \in CallSites(doc) : VariableAt(doc, s) = v }) = 1
        /\ \A s \in CallSites(doc) : VariableAt(doc, s) \in SignatureVariables(doc)

\* C4: no field, of object type or of union type, is emitted with a
\* selection set at an effective depth (its depth, minus 2 inside a union
\* fragment) greater than depthLimit.
C4_DepthBound ==
    \A doc \in Documents :
        \A i \in 1..Len(doc.body) :
            (doc.body[i].kind = "field" /\ doc.body[i].open) =>
                effectiveDepth(doc.body[i].indent, InFragment(doc.body, i)) <= depthLimit

\* C5: when includeDeprecatedFields is false no deprecated field appears in
\* any document, as a root field, as a child of an object type or as a field
\* of a member type of a union; when it is true the deprecated root fields
\* have their documents.
C5_DeprecatedAbsent ==
    /\ ~includeDeprecatedFields =>
           \A doc \in Documents :
               \A i \in 1..Len(doc.body) :
                   doc.body[i].kind = "field" => doc.body[i].name \notin DeprecatedOnlyNames
    /\ (includeDeprecatedFields /\ pc = "writeIndex") =>
           \A kind \in DOMAIN gqlSchema \cap { Kinds[k] : k \in 1..Len(Kinds) } :
               \A i \in 1..Len(gqlSchema[kind].fields) :
                   GqlPath(kind, gqlSchema[kind].fields[i].name) \in DOMAIN files

\* C6: a field whose whole subtree produces no text is omitted: no field is
\* emitted with an empty brace pair.
C6_NoEmptyBraces ==
    \A doc \in Documents :
        \A i \in 1..(Len(doc.body) - 1) :
            ~(doc.body[i].kind = "field" /\ doc.body[i].open
                /\ doc.body[i + 1].kind = "close")

\* C7: a second run of gqlGenerate in the same process, on the same schema,
\* destination and configuration, leaves every file as the first run left it.
C7_Idempotent ==
    (runs = 2 /\ pc = "idle") => files = firstRunFiles

\* C8: with k >= 2 sibling fields f1..fk that each declare one argument id,
\* no other argument in the operation and nested arguments included, the
\* signature is exactly id, id1, ..., id(k-1) in this order and the call site
\* of the i-th field references the i-th of these variables.
ExpectedVariable(i) ==
    IF i = 1 THEN <<"id">> ELSE <<"id">> \o NumberToString(i - 1)
C8_SiblingIds ==
    \A k \in 2..MaxSiblings :
        (typeDef = SiblingSchema(k) /\ ~excludeNestedArgs /\ HasDocument("Query", "r")) =>
            LET doc == DocumentOf("Query", "r")
            IN  /\ Len(doc.signature) = k
                /\ \A i \in 1..k : doc.signature[i].var = ExpectedVariable(i)
                /\ Len(doc.body) = k + 2
                /\ \A i \in 1..k :
                       /\ doc.body[i + 1].name = <<"f">> \o NumberToString(i)
                       /\ doc.body[i + 1].args =
                              <<[arg |-> <<"id">>, var |-> ExpectedVariable(i)]>>
C8_Witness ==
    /\ typeDef = SiblingSchema(MaxSiblings)
    /\ ~excludeNestedArgs
    /\ HasDocument("Query", "r")
    /\ Len(DocumentOf("Query", "r").signature) = MaxSiblings

\* C9: the expansion of a field is cut off by an edge key only when a call
\* on the current path recorded that key; a key recorded in a completed
\* sibling branch suppresses nothing.
C9_PathScoped == lastCall.exit.suppressed = <<>>

\* C10: every root traversal starts with empty argumentsDict,
\* duplicateArgCounts and crossReferenceKeyList, and the document of a root
\* field is the one that a traversal from empty accumulators produces,
\* whatever was generated before it.
C10_FreshAccumulators ==
    /\ lastCall.n > 0 => lastCall.entry = EmptyAccumulators
    /\ \A kind \in DOMAIN gqlSchema \cap { Kinds[k] : k \in 1..Len(Kinds) } :
           \A i \in 1..Len(gqlSchema[kind].fields) :
               LET type == gqlSchema[kind].fields[i].name
               IN  GqlPath(kind, type) \in DOMAIN files =>
                       files[GqlPath(kind, type)] =
                           Document(kind, type,
                               generateQuery(type, kind, <<"undefined">>,
                                             EmptyAccumulators, 1, FALSE, <<>>))
C10_Witness ==
    /\ lastCall.n >= 3
    /\ lastCall.exit.argumentsDict # <<>>
    /\ Cardinality(GqlFiles) >= 3

====
